---- MODULE Spec2Model ----
(***************************************************************************)
(* The "types" command of ack-generate (cmd/ack-generate/command/types.go): *)
(* generateTypes loads an OpenAPI3 document (getAPI), extracts resources   *)
(* and type definitions, makes sure the output directory is usable         *)
(* (ensureOutputDir) and renders doc.go, groupversion_info.go, types.go    *)
(* and one file per resource, to stdout or into the output directory.      *)
(*                                                                         *)
(* One run of generateTypes is one behaviour.  Byte strings and paths are  *)
(* sequences of one-character strings.  The libraries the command calls    *)
(* (ioutil, os, yaml, openapi3, pkg/resource, pkg/template) answer         *)
(* nondeterministically; every call is appended to the history `trace`.    *)
(***************************************************************************)
EXTENDS Integers, Sequences, FiniteSets, TLC

VARIABLES
    args,           \* generateTypes' args []string (positional arguments)
    optOutputPath,  \* the --output flag: <<>> is "" (stdout)
    fs,             \* the output directory as the file system holds it
    pc,             \* position in generateTypes / getAPI
    b,              \* getAPI: the bytes read
    contentType,    \* getAPI: the content-type hint
    jsonb,          \* getAPI: the bytes handed to the swagger loader
    err,            \* the err variable of the running function / the value returned
    api,            \* generateTypes: api ("nil" until loaded)
    resources,      \* generateTypes: resources
    typeDefs,       \* generateTypes: typeDefs
    i,              \* index of the range loop over resources
    out,            \* what has reached stdout or the output directory, in order
    trace,          \* history: the library calls made, in order
    raised,         \* history: the error the templating library returned
    ensured,        \* history: what ensureOutputDir returned
    failedAt        \* history: the statement of generateTypes that returned err

vars == <<args, optOutputPath, fs, pc, b, contentType, jsonb, err, api,
          resources, typeDefs, i, out, trace, raised, ensured, failedAt>>

-----------------------------------------------------------------------------
(* Bounds *)

\* longest input document, in bytes
MaxLen == 2
\* most resources an API yields
MaxRes == 2
\* most positional arguments given
MaxArgs == 2

-----------------------------------------------------------------------------
(* contentType *)

ctUnknown == 0
ctJSON == 1
ctYAML == 2

-----------------------------------------------------------------------------
(* Inputs *)

Bytes == {"{", "[", " ", "a"}

Inputs == UNION {[1..n -> Bytes] : n \in 0..MaxLen}

PJson == <<"a", ".", "j", "s", "o", "n">>
PYaml == <<"a", ".", "y", "a", "m", "l">>
PYml == <<".", "/", "a", ".", "y", "m", "l">>
PNoExt == <<"d", "/", "y", "a", "m", "l">>
PTxt == <<"a", ".", "t", "x", "t">>

Paths == {PJson, PYaml, PYml, PNoExt, PTxt}

ArgLists ==
    {<<>>} \cup {<<p>> : p \in Paths}
           \cup {[k \in 1..n |-> PJson] : n \in 2..MaxArgs}

OutDir == <<"o", "u", "t">>

\* the output directory: absent, a regular file, a directory, or not stat-able;
\* a directory is writeable or not by the caller and may hold an entry "test"
FsStates ==
    {[kind |-> k, writable |-> FALSE, test |-> "absent", created |-> FALSE] :
        k \in {"absent", "file", "staterr"}}
    \cup
    {[kind |-> "dir", writable |-> w, test |-> t, created |-> FALSE] :
        w \in BOOLEAN, t \in {"absent", "writable", "readonly", "isdir"}}

NoDir == [kind |-> "absent", writable |-> FALSE, test |-> "absent", created |-> FALSE]

\* the lists ResourcesFromAPI may return: Kinds are unique within a run
ResourceLists ==
    UNION {{r \in [1..n -> 1..MaxRes] : \A j, k \in 1..n : j # k => r[j] # r[k]} :
              n \in 0..MaxRes}

-----------------------------------------------------------------------------
(* Values *)

Err(kind, info) == [kind |-> kind, info |-> info, conv |-> FALSE]
NoErr == Err("nil", <<>>)

\* fmt.Errorf("expected OpenAPI3 descriptor document either via STDIN or path argument.")
ErrInvalidInvocation == Err("InvalidInvocation", <<>>)
\* fmt.Errorf("expected OpenAPI3 descriptor document but got '%s'.", string(b))
ErrEmptyOrInvalidDocument(bb) == Err("EmptyOrInvalidDocument", bb)

\* bytes as read, and bytes as yaml.YAMLToJSON returns them
Raw(bb) == [conv |-> FALSE, bytes |-> bb]
Y2J(bb) == [conv |-> TRUE, bytes |-> bb]

\* the error of LoadSwaggerFromData on the bytes it was given
ParseErr(j) == [kind |-> "MalformedDocument", info |-> j.bytes, conv |-> j.conv]

Call(op, arg, res) == [op |-> op, arg |-> arg, res |-> res]

Called(op) == \E k \in 1..Len(trace) : trace[k].op = op

-----------------------------------------------------------------------------
(* filepath.Clean and filepath.Ext, as getAPI uses them *)

RECURSIVE SplitPath(_, _, _)
SplitPath(p, cur, acc) ==
    IF p = <<>> THEN Append(acc, cur)
    ELSE IF Head(p) = "/" THEN SplitPath(Tail(p), <<>>, Append(acc, cur))
    ELSE SplitPath(Tail(p), Append(cur, Head(p)), acc)

RECURSIVE CleanElems(_, _, _)
CleanElems(elems, rooted, acc) ==
    IF elems = <<>> THEN acc
    ELSE LET e == Head(elems)
             rest == Tail(elems)
         IN  IF e = <<>> \/ e = <<".">> THEN CleanElems(rest, rooted, acc)
             ELSE IF e = <<".", ".">>
             THEN IF acc # <<>> /\ acc[Len(acc)] # <<".", ".">>
                  THEN CleanElems(rest, rooted, SubSeq(acc, 1, Len(acc) - 1))
                  ELSE IF rooted THEN CleanElems(rest, rooted, acc)
                  ELSE CleanElems(rest, rooted, Append(acc, e))
             ELSE CleanElems(rest, rooted, Append(acc, e))

RECURSIVE JoinPath(_)
JoinPath(elems) ==
    IF elems = <<>> THEN <<>>
    ELSE IF Len(elems) = 1 THEN elems[1]
    ELSE elems[1] \o <<"/">> \o JoinPath(Tail(elems))

Clean(p) ==
    IF p = <<>> THEN <<".">>
    ELSE LET rooted == p[1] = "/"
             r == (IF rooted THEN <<"/">> ELSE <<>>)
                  \o JoinPath(CleanElems(SplitPath(p, <<>>, <<>>), rooted, <<>>))
         IN  IF r = <<>> THEN <<".">> ELSE r

RECURSIVE ExtFrom(_, _)
ExtFrom(path, k) ==
    IF k < 1 THEN <<>>
    ELSE IF path[k] = "/" THEN <<>>
    ELSE IF path[k] = "." THEN SubSeq(path, k, Len(path))
    ELSE ExtFrom(path, k - 1)

Ext(path) == ExtFrom(path, Len(path))

-----------------------------------------------------------------------------
(* Initial state: the command line, the flags and the file system *)

Init ==
    /\ args \in ArgLists
    /\ \/ optOutputPath = <<>> /\ fs = NoDir
       \/ optOutputPath = OutDir /\ fs \in FsStates
    /\ pc = "getAPI"
    /\ b = <<>>
    /\ contentType = ctUnknown
    /\ jsonb = Raw(<<>>)
    /\ err = NoErr
    /\ api = "nil"
    /\ resources = <<>>
    /\ typeDefs = [ok |-> FALSE, api |-> "nil", resources |-> <<>>]
    /\ i = 0
    /\ out = <<>>
    /\ trace = <<>>
    /\ raised = NoErr
    /\ ensured = [called |-> FALSE, existed |-> FALSE, err |-> NoErr]
    /\ failedAt = "none"

\* getAPI's locals go out of scope when it returns
DropLocals ==
    /\ b' = <<>>
    /\ contentType' = ctUnknown
    /\ jsonb' = Raw(<<>>)

\* `return err` out of generateTypes, from the statement `stage`
Fail(stage, e) ==
    /\ pc' = "Failed"
    /\ err' = e
    /\ failedAt' = stage
    /\ DropLocals

-----------------------------------------------------------------------------
(* getAPI *)

\* switch len(args)
ArityCase_OneOrMore(n) ==
    IF n = 0 THEN "stdin" ELSE "file"

ArityCase(n) ==
    IF n = 0 THEN "stdin" ELSE IF n = 1 THEN "file" ELSE "default"

\* switch ext
ContentTypeOf(ext) ==
    IF ext = <<"j", "s", "o", "n">> THEN ctJSON
    ELSE IF ext = <<"y", "a", "m", "l">> \/ ext = <<"y", "m", "l">> THEN ctYAML
    ELSE ctUnknown

\* if len(b) < 2
TooShort_Empty(bb) == Len(bb) < 1

TooShort(bb) == Len(bb) < 2

RECURSIVE FirstNonSpace(_)
FirstNonSpace(bb) ==
    IF bb = <<>> THEN "none"
    ELSE IF Head(bb) = " " THEN FirstNonSpace(Tail(bb))
    ELSE Head(bb)

UseYAML_SkipSpace(ct, bb) ==
    ct = ctYAML \/ (ct = ctUnknown /\ FirstNonSpace(bb) \notin {"{", "["})

\* if contentType == ctYAML || (contentType == ctUnknown && b[0] != '{' && b[0] != '[')
UseYAML(ct, bb) ==
    ct = ctYAML \/ (ct = ctUnknown /\ bb[1] # "{" /\ bb[1] # "[")

Fallback_Empty(bb) == Raw(<<>>)

\* jsonb = b, when YAMLToJSON failed
Fallback(bb) == Raw(bb)

\* case 0: ioutil.ReadAll(os.Stdin)
GetAPIStdin ==
    /\ pc = "getAPI"
    /\ ArityCase(Len(args)) = "stdin"
    /\ trace' = Append(trace, Call("ReadStdin", <<>>, 0))
    /\ \/ \E d \in Inputs :
            /\ b' = d
            /\ pc' = "checkLen"
            /\ UNCHANGED <<contentType, jsonb, err, failedAt>>
       \/ Fail("getAPI", ErrInvalidInvocation)
    /\ UNCHANGED <<args, optOutputPath, fs, api, resources, typeDefs, i, out,
                   raised, ensured>>

\* case 1: the hint from the extension, then ioutil.ReadFile(fp)
GetAPIFile ==
    /\ pc = "getAPI"
    /\ ArityCase(Len(args)) = "file"
    /\ LET fp == Clean(args[1])
       IN  /\ trace' = Append(trace, Call("ReadFile", fp, 0))
           /\ \/ \E d \in Inputs :
                   /\ b' = d
                   /\ contentType' = ContentTypeOf(Ext(fp))
                   /\ pc' = "checkLen"
                   /\ UNCHANGED <<jsonb, err, failedAt>>
              \/ Fail("getAPI", Err("ReadFileError", fp))
    /\ UNCHANGED <<args, optOutputPath, fs, api, resources, typeDefs, i, out,
                   raised, ensured>>

\* default: neither stdin nor a file is read
GetAPIDefault ==
    /\ pc = "getAPI"
    /\ ArityCase(Len(args)) = "default"
    /\ Fail("getAPI", ErrInvalidInvocation)
    /\ UNCHANGED <<args, optOutputPath, fs, api, resources, typeDefs, i, out,
                   trace, raised, ensured>>

\* if len(b) < 2 { return ... }
CheckLen ==
    /\ pc = "checkLen"
    /\ IF TooShort(b)
       THEN Fail("getAPI", ErrEmptyOrInvalidDocument(b))
       ELSE /\ pc' = "normalize"
            /\ UNCHANGED <<b, contentType, jsonb, err, failedAt>>
    /\ UNCHANGED <<args, optOutputPath, fs, api, resources, typeDefs, i, out,
                   trace, raised, ensured>>

\* var jsonb []byte = b, then the YAML pass where the hint or the first byte asks for it
Normalize ==
    /\ pc = "normalize"
    /\ IF UseYAML(contentType, b)
       THEN /\ trace' = Append(trace, Call("YAMLToJSON", <<>>, 0))
            /\ \/ jsonb' = Y2J(b) /\ err' = NoErr
               \/ jsonb' = Fallback(b) /\ err' = Err("YAMLError", b)
       ELSE /\ jsonb' = Raw(b)
            /\ UNCHANGED <<trace, err>>
    /\ pc' = "parse"
    /\ UNCHANGED <<args, optOutputPath, fs, b, contentType, api, resources,
                   typeDefs, i, out, raised, ensured, failedAt>>

\* api, err := openapi3.NewSwaggerLoader().LoadSwaggerFromData(jsonb)
LoadSwagger ==
    /\ pc = "parse"
    /\ trace' = Append(trace, Call("LoadSwaggerFromData", <<>>, 0))
    /\ \/ /\ api' = "api"
          /\ err' = NoErr
          /\ pc' = "ResourcesFromAPI"
          /\ DropLocals
          /\ UNCHANGED failedAt
       \/ /\ Fail("getAPI", ParseErr(jsonb))
          /\ UNCHANGED api
    /\ UNCHANGED <<args, optOutputPath, fs, resources, typeDefs, i, out,
                   raised, ensured>>

-----------------------------------------------------------------------------
(* generateTypes: extraction *)

\* resources, err := resource.ResourcesFromAPI(api)
ResourcesFromAPI ==
    /\ pc = "ResourcesFromAPI"
    /\ trace' = Append(trace, Call("ResourcesFromAPI", <<>>, 0))
    /\ \/ \E rs \in ResourceLists :
            /\ resources' = rs
            /\ pc' = "TypeDefsFromAPI"
            /\ UNCHANGED <<b, contentType, jsonb, err, failedAt>>
       \/ /\ Fail("ResourcesFromAPI", Err("ResourcesError", <<>>))
          /\ UNCHANGED resources
    /\ UNCHANGED <<args, optOutputPath, fs, api, typeDefs, i, out, raised, ensured>>

TypeDefsOf_NoResources(a, rs) == [ok |-> TRUE, api |-> a, resources |-> <<>>]

\* resource.TypeDefsFromAPI(api, resources): the list is a function of its arguments
TypeDefsOf(a, rs) == [ok |-> TRUE, api |-> a, resources |-> rs]

\* typeDefs, err := resource.TypeDefsFromAPI(api, resources)
TypeDefsFromAPI ==
    /\ pc = "TypeDefsFromAPI"
    /\ trace' = Append(trace, Call("TypeDefsFromAPI", <<>>, 0))
    /\ \/ /\ typeDefs' = TypeDefsOf(api, resources)
          /\ pc' = "ensureOutputDir"
          /\ UNCHANGED <<b, contentType, jsonb, err, failedAt>>
       \/ /\ Fail("TypeDefsFromAPI", Err("TypeDefsError", <<>>))
          /\ UNCHANGED typeDefs
    /\ UNCHANGED <<args, optOutputPath, fs, api, resources, i, out, raised, ensured>>

-----------------------------------------------------------------------------
(* ensureOutputDir *)

\* os.OpenFile(<dir>/test, os.O_WRONLY, 0666): there is no O_CREATE
OpenTest(dir) ==
    CASE dir.test = "absent" -> Err("ENOENT", <<"t", "e", "s", "t">>)
      [] dir.test = "readonly" -> Err("EACCES", <<"t", "e", "s", "t">>)
      [] dir.test = "isdir" -> Err("EISDIR", <<"t", "e", "s", "t">>)
      [] OTHER -> NoErr

\* the path exists (os.Stat succeeded): what ensureOutputDir returns
EnsureExisting(dir) ==
    IF dir.kind # "dir"
    THEN [called |-> TRUE, existed |-> FALSE, err |-> Err("NotADirectory", OutDir)]
    ELSE LET e == OpenTest(dir)
         IN  IF e = NoErr
             THEN [called |-> TRUE, existed |-> TRUE, err |-> NoErr]
             ELSE IF e.kind = "EACCES"
             THEN [called |-> TRUE, existed |-> TRUE, err |-> Err("NotWriteable", OutDir)]
             ELSE [called |-> TRUE, existed |-> TRUE, err |-> e]

\* if _, err := ensureOutputDir(); err != nil { return err }
EnsureOutputDir ==
    /\ pc = "ensureOutputDir"
    /\ \/ /\ optOutputPath = <<>>
          /\ ensured' = [called |-> TRUE, existed |-> FALSE, err |-> NoErr]
          /\ UNCHANGED <<fs, trace>>
       \/ /\ optOutputPath # <<>>
          /\ fs.kind = "staterr"
          /\ trace' = Append(trace, Call("Stat", optOutputPath, 0))
          /\ ensured' = [called |-> TRUE, existed |-> FALSE,
                         err |-> Err("StatError", optOutputPath)]
          /\ UNCHANGED fs
       \/ /\ optOutputPath # <<>>
          /\ fs.kind = "absent"
          /\ trace' = trace \o <<Call("Stat", optOutputPath, 0),
                                 Call("MkdirAll", optOutputPath, 0)>>
          /\ \/ /\ fs' = [kind |-> "dir", writable |-> TRUE, test |-> "absent",
                          created |-> TRUE]
                /\ ensured' = [called |-> TRUE, existed |-> FALSE, err |-> NoErr]
             \/ /\ ensured' = [called |-> TRUE, existed |-> FALSE,
                               err |-> Err("MkdirError", optOutputPath)]
                /\ UNCHANGED fs
       \/ /\ optOutputPath # <<>>
          /\ fs.kind \in {"file", "dir"}
          /\ trace' = trace \o
                (<<Call("Stat", optOutputPath, 0)>> \o
                 (IF fs.kind = "dir" THEN <<Call("OpenFile", optOutputPath, 0)>>
                  ELSE <<>>))
          /\ ensured' = EnsureExisting(fs)
          /\ UNCHANGED fs
    /\ IF ensured'.err # NoErr
       THEN Fail("ensureOutputDir", ensured'.err)
       ELSE /\ pc' = "writeDocGo"
            /\ UNCHANGED <<b, contentType, jsonb, err, failedAt>>
    /\ UNCHANGED <<args, optOutputPath, api, resources, typeDefs, i, out, raised>>

-----------------------------------------------------------------------------
(* Rendering and output *)

Artifact(art, res, complete) ==
    [art |-> art, res |-> res,
     dest |-> IF optOutputPath = <<>> THEN "stdout" ELSE "file",
     complete |-> complete]

ReturnErr_Wrapped(e) == Err("Wrapped", e.info)

\* `return err`, as the write functions and generateTypes do after a failed call
ReturnErr(e) == e

\* if err = writeX(...); err != nil { return err }: the caller returns the error
\* (checked); unchecked, it would go on with the next statement
OnError(stage, e, nextpc, nexti, checked) ==
    IF checked
    THEN Fail(stage, ReturnErr(e)) /\ UNCHANGED i
    ELSE /\ err' = e
         /\ pc' = nextpc
         /\ i' = nexti
         /\ UNCHANGED <<b, contentType, jsonb, failedAt>>

\* One of writeDocGo, writeGroupVersionInfoGo, writeTypesGo, writeResourceGo:
\* load the template, execute it into a buffer, then print or write the buffer.
Emit(stage, art, res, nextpc, nexti, checked) ==
    /\ trace' = Append(trace, Call("Render", <<art>>, res))
    /\ \/ \E k \in {"TemplateLoad", "TemplateExecute"} :
            /\ raised' = Err(k, <<art>>)
            /\ OnError(stage, raised', nextpc, nexti, checked)
            /\ UNCHANGED out
       \/ /\ optOutputPath = <<>>
          /\ out' = Append(out, Artifact(art, res, TRUE))
          /\ pc' = nextpc
          /\ i' = nexti
          /\ UNCHANGED <<b, contentType, jsonb, err, failedAt, raised>>
       \/ /\ optOutputPath # <<>>
          /\ fs.writable
          /\ out' = Append(out, Artifact(art, res, TRUE))
          /\ pc' = nextpc
          /\ i' = nexti
          /\ UNCHANGED <<b, contentType, jsonb, err, failedAt, raised>>
       \/ /\ optOutputPath # <<>>
          /\ OnError(stage, Err("WriteError", <<art>>), nextpc, nexti, checked)
          /\ \/ out' = out
             \/ fs.writable /\ out' = Append(out, Artifact(art, res, FALSE))
          /\ UNCHANGED raised
    /\ UNCHANGED <<args, optOutputPath, fs, api, resources, typeDefs, ensured>>

WriteDocGo_Unchecked ==
    /\ pc = "writeDocGo"
    /\ Emit("writeDocGo", "doc.go", 0, "writeGroupVersionInfoGo", i, FALSE)

WriteDocGo ==
    /\ pc = "writeDocGo"
    /\ Emit("writeDocGo", "doc.go", 0, "writeGroupVersionInfoGo", i, TRUE)

WriteGroupVersionInfoGo ==
    /\ pc = "writeGroupVersionInfoGo"
    /\ Emit("writeGroupVersionInfoGo", "groupversion_info.go", 0, "writeTypesGo", i,
            TRUE)

WriteTypesGo ==
    /\ pc = "writeTypesGo"
    /\ typeDefs.ok
    /\ Emit("writeTypesGo", "types.go", 0, "writeResourceGo", 1, TRUE)

ResourceAt_First(rs, k) == rs[1]

\* for _, res := range resources
ResourceAt(rs, k) == rs[k]

WriteResourceGo ==
    /\ pc = "writeResourceGo"
    /\ i <= Len(resources)
    /\ Emit("writeResourceGo", "resource", ResourceAt(resources, i),
            "writeResourceGo", i + 1, TRUE)

\* the range is exhausted: return nil
ReturnNil ==
    /\ pc = "writeResourceGo"
    /\ i > Len(resources)
    /\ pc' = "Done"
    /\ UNCHANGED <<args, optOutputPath, fs, b, contentType, jsonb, err, api,
                   resources, typeDefs, i, out, trace, raised, ensured, failedAt>>

-----------------------------------------------------------------------------

Next ==
    \/ GetAPIStdin
    \/ GetAPIFile
    \/ GetAPIDefault
    \/ CheckLen
    \/ Normalize
    \/ LoadSwagger
    \/ ResourcesFromAPI
    \/ TypeDefsFromAPI
    \/ EnsureOutputDir
    \/ WriteDocGo
    \/ WriteGroupVersionInfoGo
    \/ WriteTypesGo
    \/ WriteResourceGo
    \/ ReturnNil

Spec == Init /\ [][Next]_vars

-----------------------------------------------------------------------------
(* Vocabulary of the properties *)

Key(art, res) == [art |-> art, res |-> res]

Keys(o) == [k \in 1..Len(o) |-> Key(o[k].art, o[k].res)]

\* the artifacts of a run over the resource list rs, in order
Artifacts(rs) ==
    <<Key("doc.go", 0), Key("groupversion_info.go", 0), Key("types.go", 0)>>
    \o [k \in 1..Len(rs) |-> Key("resource", rs[k])]

IsPrefix(s, t) == Len(s) <= Len(t) /\ s = SubSeq(t, 1, Len(s))

IsRender(c) == c.op = "Render"

\* the renders made so far, as artifact keys
Renders ==
    LET r == SelectSeq(trace, IsRender)
    IN  [k \in 1..Len(r) |-> Key(r[k].arg[1], r[k].res)]

YamlCalled == Called("YAMLToJSON")

HasSuffix(s, suf) ==
    Len(s) >= Len(suf) /\ SubSeq(s, Len(s) - Len(suf) + 1, Len(s)) = suf

PreEmission == {"getAPI", "ResourcesFromAPI", "TypeDefsFromAPI", "ensureOutputDir"}

StageRank(op) ==
    CASE op \in {"ReadStdin", "ReadFile"} -> 1
      [] op = "YAMLToJSON" -> 2
      [] op = "LoadSwaggerFromData" -> 3
      [] op = "ResourcesFromAPI" -> 4
      [] op = "TypeDefsFromAPI" -> 5
      [] op \in {"Stat", "MkdirAll", "OpenFile"} -> 6
      [] OTHER -> 7

FailRank(stage) ==
    CASE stage = "getAPI" -> 3
      [] stage = "ResourcesFromAPI" -> 4
      [] stage = "TypeDefsFromAPI" -> 5
      [] stage = "ensureOutputDir" -> 6
      [] OTHER -> 7

-----------------------------------------------------------------------------
(* Properties *)

\* C1 (as stated): emission is all-or-nothing; a run of generateTypes that ends
\* in failure has displayed or written no artifact.
C1_AllOrNothing ==
    pc = "Failed" => out = <<>>

\* C1 (amended): a run that fails in getAPI, ResourcesFromAPI, TypeDefsFromAPI or
\* ensureOutputDir has emitted nothing; a run that fails in a render/write step
\* has emitted, complete and in order, exactly the artifacts of the steps before
\* the failing one, and of the failing artifact at most a partial file, and that
\* only when the failure was the write.
C1_PrefixOnFailure ==
    pc = "Failed" =>
        IF failedAt \in PreEmission
        THEN out = <<>>
        ELSE LET n == Len(Renders)
             IN  /\ IsPrefix(Renders, Artifacts(resources))
                 /\ IsPrefix(Keys(out), Renders)
                 /\ Len(out) \in {n - 1, n}
                 /\ \A k \in 1..Len(out) : out[k].complete <=> k < n
                 /\ Len(out) = n => err.kind = "WriteError"

\* a run failed in writeResourceGo after the three shared files were emitted
C1_Witness ==
    /\ pc = "Failed"
    /\ failedAt = "writeResourceGo"
    /\ Len(out) >= 3
    /\ out[3].complete

\* C2 (as stated): with no hint, the first non-whitespace byte decides; for '{'
\* or '[' the bytes reach the JSON parser as they are and YAMLToJSON is not
\* attempted, for every other input it is attempted.
C2_FirstNonSpaceByte ==
    (pc = "parse" /\ contentType = ctUnknown) =>
        IF FirstNonSpace(b) \in {"{", "["}
        THEN ~YamlCalled /\ jsonb = Raw(b)
        ELSE YamlCalled

\* C2 (amended): with no hint, the first byte b[0] decides, whitespace or not;
\* for '{' or '[' the bytes reach the JSON parser as they are and YAMLToJSON is
\* not attempted, for every other first byte (leading whitespace too) it is.
C2_FirstByte ==
    (pc = "parse" /\ contentType = ctUnknown) =>
        IF b[1] \in {"{", "["}
        THEN ~YamlCalled /\ jsonb = Raw(b)
        ELSE YamlCalled

\* a JSON document after a leading space went through YAMLToJSON
C2_Witness ==
    /\ pc = "parse"
    /\ contentType = ctUnknown
    /\ b = <<" ", "{">>
    /\ YamlCalled

\* C3: the hint follows the file extension: for a path ending in .json
\* YAMLToJSON is never attempted, for one ending in .yaml or .yml it always is,
\* and for any other extension and for stdin the first byte decides.
C3_HintFromExtension ==
    pc = "parse" =>
        LET sniffed == (YamlCalled <=> b[1] \notin {"{", "["})
        IN  IF Len(args) = 0 THEN sniffed
            ELSE LET fp == Clean(args[1])
                 IN  IF HasSuffix(fp, <<".", "j", "s", "o", "n">>) THEN ~YamlCalled
                     ELSE IF \/ HasSuffix(fp, <<".", "y", "a", "m", "l">>)
                             \/ HasSuffix(fp, <<".", "y", "m", "l">>)
                     THEN YamlCalled
                     ELSE sniffed

\* C4: at the length check nothing has been normalized or parsed; an input of 0
\* or 1 byte fails there with EmptyOrInvalidDocument, without a further call,
\* and an input of 2 or more bytes passes on to normalization unchanged.
C4_LengthCheck ==
    [][pc = "checkLen" =>
          /\ ~Called("YAMLToJSON")
          /\ ~Called("LoadSwaggerFromData")
          /\ IF Len(b) < 2
             THEN /\ pc' = "Failed"
                  /\ err' = ErrEmptyOrInvalidDocument(b)
                  /\ trace' = trace
             ELSE /\ pc' = "normalize"
                  /\ b' = b]_vars

\* a file of one byte was refused
C4_Witness ==
    /\ pc = "Failed"
    /\ err.kind = "EmptyOrInvalidDocument"
    /\ Len(err.info) = 1
    /\ trace = <<Call("ReadFile", PYaml, 0)>>

\* C5: with no argument the document is read from stdin and no file is read;
\* with one argument it is read from that path; with two or more the run fails
\* with InvalidInvocation, nothing is read and nothing is emitted.
C5_Arity ==
    /\ Len(args) = 0 =>
          /\ ~Called("ReadFile")
          /\ pc # "getAPI" => trace[1] = Call("ReadStdin", <<>>, 0)
    /\ Len(args) = 1 =>
          /\ ~Called("ReadStdin")
          /\ pc # "getAPI" => trace[1] = Call("ReadFile", Clean(args[1]), 0)
    /\ Len(args) >= 2 =>
          /\ pc \in {"getAPI", "Failed"}
          /\ trace = <<>>
          /\ out = <<>>
          /\ pc = "Failed" => err = ErrInvalidInvocation

\* a run with two arguments has failed
C5_Witness ==
    /\ Len(args) = 2
    /\ pc = "Failed"
    /\ err = ErrInvalidInvocation

\* C6: a failed YAMLToJSON does not fail the load: the original bytes go to the
\* parser, and the load fails only if that parse fails, with the parser's error
\* on the original bytes and not the YAML error.
C6_Fallback ==
    [][/\ pc = "normalize" =>
             /\ pc' = "parse"
             /\ err'.kind = "YAMLError" => jsonb' = Raw(b)
       /\ (pc = "parse" /\ err.kind = "YAMLError") =>
             /\ jsonb = Raw(b)
             /\ pc' = "Failed" => err' = ParseErr(Raw(b))
             /\ pc' # "Failed" => (api' = "api" /\ err' = NoErr)]_vars

\* YAMLToJSON failed and the parse of the original bytes failed too
C6_Witness ==
    /\ pc = "Failed"
    /\ YamlCalled
    /\ err.kind = "MalformedDocument"
    /\ ~err.conv
    /\ Len(err.info) = 2

C7_StageOrder ==
    /\ \A j, k \in 1..Len(trace) :
          j < k => /\ StageRank(trace[j].op) <= StageRank(trace[k].op)
                   /\ StageRank(trace[k].op) < 6 =>
                         StageRank(trace[j].op) < StageRank(trace[k].op)
    /\ \A k \in 1..Len(trace) : StageRank(trace[k].op) <= FailRank(failedAt)
    /\ Called("ResourcesFromAPI") => (Called("LoadSwaggerFromData") /\ api = "api")
    /\ Called("TypeDefsFromAPI") => Called("ResourcesFromAPI")
    /\ typeDefs.ok => typeDefs = [ok |-> TRUE, api |-> api, resources |-> resources]
    /\ ensured.called => (Called("TypeDefsFromAPI") /\ typeDefs.ok)
    /\ (Called("Render") \/ out # <<>>) =>
          /\ api = "api"
          /\ Called("ResourcesFromAPI")
          /\ typeDefs.ok
          /\ ensured.called
          /\ ensured.err = NoErr

\* C7: the stages run in the order load, resources, type definitions, output
\* directory, emission, each only after the previous one succeeded; nothing is
\* rendered or written before the document is loaded and both lists exist; the
\* type definitions are extracted from the resources of the same run; and no
\* step is taken from Failed.
C7_Sequential ==
    [][C7_StageOrder /\ C7_StageOrder' /\ pc # "Failed"]_vars

\* an artifact was emitted for a run with two resources
C7_Witness ==
    /\ out # <<>>
    /\ Len(typeDefs.resources) = 2
    /\ pc = "writeGroupVersionInfoGo"

\* C8: a run that reaches Done has rendered and forwarded, once each and in this
\* order, doc.go, groupversion_info.go, types.go and one artifact per resource
\* in the order of the resource list: 3 + n artifacts.
C8_DoneEmitsAll ==
    pc = "Done" =>
        /\ Renders = Artifacts(resources)
        /\ Keys(out) = Artifacts(resources)
        /\ \A k \in 1..Len(out) : out[k].complete
        /\ Len(out) = 3 + Len(resources)

\* a run over the resources <<2, 1>> is done
C8_Witness ==
    /\ pc = "Done"
    /\ resources = <<2, 1>>
    /\ Len(out) = 5

\* C9: no call is made twice in a run; when a template fails to load or to
\* execute, generateTypes returns that very error, nothing of that artifact is
\* forwarded and no later artifact is rendered.
C9_NoRetryPropagate ==
    /\ \A j, k \in 1..Len(trace) : j # k => trace[j] # trace[k]
    /\ raised # NoErr =>
          /\ pc = "Failed"
          /\ err = raised
          /\ trace[Len(trace)].op = "Render"
          /\ trace[Len(trace)].arg = raised.info
          /\ Len(out) = Len(Renders) - 1
          /\ Keys(out) = SubSeq(Renders, 1, Len(out))

\* the template of the second resource failed to execute
C9_Witness ==
    /\ pc = "Failed"
    /\ raised = Err("TemplateExecute", <<"resource">>)
    /\ Len(out) = 4

\* C10: ensureOutputDir changes nothing and returns (false, nil) for the empty
\* path; creates a missing directory and returns false; for an existing
\* directory returns true, with an error exactly when the directory is not
\* writeable by the caller, whether or not it holds a file named "test".
C10_EnsureOutputDir ==
    ensured.called =>
        /\ optOutputPath = <<>> =>
              (fs = NoDir /\ ~ensured.existed /\ ensured.err = NoErr)
        /\ (optOutputPath # <<>> /\ fs.kind = "dir" /\ fs.created) =>
              (~ensured.existed /\ ensured.err = NoErr)
        /\ (optOutputPath # <<>> /\ fs.kind = "dir" /\ ~fs.created) =>
              /\ ensured.existed
              /\ ensured.err # NoErr <=> ~fs.writable

====
